---- MODULE Spec2Model ----
(***************************************************************************)
(* Model of src/synthesize.py: a single-process pipeline                   *)
(*   validate_environment -> (key selection) -> read_text_file ->          *)
(*   synthesize_speech -> upload_to_s3 -> cleanup -> sys.exit(0).          *)
(* The environment (process environment variables, the content of          *)
(* speech.txt, a possibly left-over output.mp3, and the outcome of every   *)
(* file and service call) is chosen nondeterministically.                  *)
(***************************************************************************)
EXTENDS Integers, Sequences, FiniteSets, TLC

\* ---------------------------------------------------------------- bounds
MaxLen == 3
MaxAudio == 2

\* ------------------------------------------------------------ value sets
Unset == "<unset>"
None == "<None>"

Chars == {"a", " "}
Whitespace == {" "}
Bytes == {1, 2}

RECURSIVE SeqsUpTo(_, _)
SeqsUpTo(S, n) ==
    IF n = 0 THEN {<<>>}
    ELSE LET shorter == SeqsUpTo(S, n - 1)
         IN  shorter \cup {Append(s, x) : s \in {t \in shorter : Len(t) = n - 1}, x \in S}

Texts == SeqsUpTo(Chars, MaxLen)
AudioStreams == SeqsUpTo(Bytes, MaxAudio)

BucketValues == {Unset, "", "my-bucket"}
RegionValues == {Unset, "eu-west-1"}
EnvironmentValues == {Unset, "", "dev", "beta", "prod", "PROD", "staging"}

NoFile == [exists |-> FALSE, data |-> <<>>]
File(d) == [exists |-> TRUE, data |-> d]
StaleAudio == <<2, 1, 2>>

SpeechFiles ==
    {[status |-> "missing", data |-> <<>>], [status |-> "unreadable", data |-> <<>>]}
    \cup {[status |-> "ok", data |-> t] : t \in Texts}

VARIABLES
    pc,          \* position of main(): validate, configure, read, synth, upload, cleanup, exited
    exitCode,    \* process exit status, -1 while running
    unhandled,   \* TRUE when the process died of an uncaught exception
    environ,     \* os.environ
    speechFile,  \* speech.txt on disk
    outFile,     \* output.mp3 on disk
    outFile0,    \* output.mp3 as it was when the process started
    bucket_name, aws_region, environment, s3_key, text,   \* locals of main()
    responses,   \* responses returned by polly_client.synthesize_speech
    synthCalls,  \* arguments of every polly_client.synthesize_speech call
    uploadCalls, \* arguments of every s3_client.upload_file call
    stages,      \* stages started, in order
    result,      \* outcome of each stage: none, ok, fail, skipped
    ioLog,       \* file, client and network operations attempted, in order
    printed      \* diagnostic lines printed

vars == <<pc, exitCode, unhandled, environ, speechFile, outFile, outFile0,
          bucket_name, aws_region, environment, s3_key, text, responses,
          synthCalls, uploadCalls, stages, result, ioLog, printed>>

StageNames == <<"validate", "read", "synth", "upload", "cleanup">>
FourStages == {"validate", "read", "synth", "upload"}

\* ------------------------------------------------------- pure operators

\* os.environ.get(name, default)
EnvGet(name, default) ==
    IF environ[name] = Unset THEN default ELSE environ[name]

\* truth value of a str-or-None: `not v` is true for None and for ''
FalsyNoneOnly(v) == v = None
Falsy(v) == v = None \/ v = ""

\* str.strip(): drop leading and trailing whitespace
RECURSIVE LStrip(_)
LStrip(s) ==
    IF s = <<>> THEN <<>>
    ELSE IF Head(s) \in Whitespace THEN LStrip(Tail(s)) ELSE s

RECURSIVE RStrip(_)
RStrip(s) ==
    IF s = <<>> THEN <<>>
    ELSE IF s[Len(s)] \in Whitespace THEN RStrip(SubSeq(s, 1, Len(s) - 1)) ELSE s

Strip(s) == RStrip(LStrip(s))

\* isinstance(exc, Exception): SystemExit derives from BaseException only
IsExceptionAll(exc) == TRUE
IsException(exc) == exc # "SystemExit"

\* which except clause of read_text_file takes a raised exception
ReadHandler(exc) ==
    IF exc = "FileNotFoundError" THEN "not_found"
    ELSE IF IsException(exc) THEN "generic"
    ELSE "propagate"

\* the if/elif/else choosing the object key
S3KeyIgnoreCase(env) ==
    IF env = "beta" THEN "polly-audio/beta.mp3"
    ELSE IF env \in {"prod", "PROD"} THEN "polly-audio/prod.mp3"
    ELSE "polly-audio/dev.mp3"
S3Key(env) ==
    IF env = "beta" THEN "polly-audio/beta.mp3"
    ELSE IF env = "prod" THEN "polly-audio/prod.mp3"
    ELSE "polly-audio/dev.mp3"

\* sys.exit(code) / death by uncaught exception
Exit(code, uncaught) ==
    /\ pc' = "exited"
    /\ exitCode' = code
    /\ unhandled' = uncaught

Running(next) ==
    /\ pc' = next
    /\ UNCHANGED <<exitCode, unhandled>>

\* ------------------------------------------------------------------ Init
Init ==
    /\ pc = "validate"
    /\ exitCode = -1
    /\ unhandled = FALSE
    /\ environ \in {[S3_BUCKET_NAME |-> b, AWS_REGION |-> r, ENVIRONMENT |-> e] :
                       b \in BucketValues, r \in RegionValues, e \in EnvironmentValues}
    /\ speechFile \in SpeechFiles
    /\ outFile \in {NoFile, File(StaleAudio)}
    /\ outFile0 = outFile
    /\ bucket_name = None
    /\ aws_region = None
    /\ environment = None
    /\ s3_key = None
    /\ text = <<>>
    /\ responses = <<>>
    /\ synthCalls = <<>>
    /\ uploadCalls = <<>>
    /\ stages = <<>>
    /\ result = [s \in {"validate", "read", "synth", "upload", "cleanup"} |-> "none"]
    /\ ioLog = <<>>
    /\ printed = <<>>

\* --------------------------------------------------------------- actions

\* main() step 1: validate_environment()
ValidateEnvironment ==
    /\ pc = "validate"
    /\ stages' = Append(stages, "validate")
    /\ LET b == EnvGet("S3_BUCKET_NAME", None)
           r == EnvGet("AWS_REGION", "us-east-1")
       IN  IF Falsy(b)
           THEN /\ printed' = Append(printed, "ERR_BUCKET_NOT_SET")
                /\ result' = [result EXCEPT !["validate"] = "fail"]
                /\ Exit(1, FALSE)
                /\ UNCHANGED <<bucket_name, aws_region>>
           ELSE /\ bucket_name' = b
                /\ aws_region' = r
                /\ result' = [result EXCEPT !["validate"] = "ok"]
                /\ Running("configure")
                /\ UNCHANGED printed
    /\ UNCHANGED <<environ, speechFile, outFile, outFile0, environment, s3_key,
                   text, responses, synthCalls, uploadCalls, ioLog>>

\* main() step 2: file names and the environment-specific key
Configure ==
    /\ pc = "configure"
    /\ environment' = EnvGet("ENVIRONMENT", "dev")
    /\ s3_key' = S3Key(environment')
    /\ Running("read")
    /\ UNCHANGED <<environ, speechFile, outFile, outFile0, bucket_name, aws_region,
                   text, responses, synthCalls, uploadCalls, stages, result, ioLog,
                   printed>>

\* what the try body of read_text_file raises, "none" when it returns
ReadRaises(f) ==
    IF f.status = "missing" THEN "FileNotFoundError"
    ELSE IF f.status = "unreadable" THEN "OSError"
    ELSE IF Strip(f.data) = <<>> THEN "SystemExit"
    ELSE "none"

\* main() step 3: read_text_file('speech.txt')
ReadTextFile ==
    /\ pc = "read"
    /\ stages' = Append(stages, "read")
    /\ ioLog' = Append(ioLog, "open_speech")
    /\ LET exc == ReadRaises(speechFile)
           body == IF exc = "SystemExit" THEN <<"ERR_FILE_EMPTY">> ELSE <<>>
           handler == IF exc = "none" THEN "none" ELSE ReadHandler(exc)
       IN  IF exc = "none"
           THEN /\ text' = Strip(speechFile.data)
                /\ printed' = Append(printed, "READ_OK")
                /\ result' = [result EXCEPT !["read"] = "ok"]
                /\ Running("synth")
           ELSE /\ printed' = printed \o body \o
                                 (CASE handler = "not_found" -> <<"ERR_FILE_NOT_FOUND">>
                                    [] handler = "generic" -> <<"ERR_READING_FILE">>
                                    [] OTHER -> <<>>)
                /\ result' = [result EXCEPT !["read"] = "fail"]
                /\ Exit(1, FALSE)
                /\ UNCHANGED text
    /\ UNCHANGED <<environ, speechFile, outFile, outFile0, bucket_name, aws_region,
                   environment, s3_key, responses, synthCalls, uploadCalls>>

\* ---- synthesize_speech(text, 'output.mp3', aws_region)
SynthOutcomes ==
    {"client_error", "call_error", "no_stream", "open_error", "read_error",
     "write_error", "getsize_error", "ok"}

\* the operations synthesize_speech attempts, up to the one that fails
SynthOps(outcome) ==
    CASE outcome = "client_error" -> <<"polly_client">>
      [] outcome \in {"call_error", "no_stream"} -> <<"polly_client", "polly_synthesize">>
      [] outcome = "open_error" -> <<"polly_client", "polly_synthesize", "open_output">>
      [] outcome = "read_error" ->
            <<"polly_client", "polly_synthesize", "open_output", "read_stream">>
      [] outcome = "write_error" ->
            <<"polly_client", "polly_synthesize", "open_output", "read_stream",
              "write_output">>
      [] OTHER ->
            <<"polly_client", "polly_synthesize", "open_output", "read_stream",
              "write_output", "getsize_output">>

\* output.mp3 after synthesize_speech: open(..., 'wb') truncates, write() stores
\* the stream; `partial` is how much reached the disk when write() raised
OutputKeepsOld(old, audio, outcome, partial) == old
OutputAfterSynth(old, audio, outcome, partial) ==
    CASE outcome \in {"client_error", "call_error", "no_stream", "open_error"} -> old
      [] outcome = "read_error" -> File(<<>>)
      [] outcome = "write_error" -> File(SubSeq(audio, 1, partial))
      [] OTHER -> File(audio)

\* the boolean synthesize_speech returns
SynthReturnsNoStreamOk(outcome) == outcome \in {"ok", "no_stream"}
SynthReturns(outcome) == outcome = "ok"

\* the response of the Polly call: a dict that may lack 'AudioStream'
PollyResponse(outcome, audio) ==
    IF outcome = "no_stream"
    THEN [ContentType |-> "audio/mpeg"]
    ELSE [ContentType |-> "audio/mpeg", AudioStream |-> audio]

\* if not success: sys.exit(1)
GateAlwaysOn(success, next) == Running(next)
Gate(success, next) ==
    IF success THEN Running(next) ELSE Exit(1, FALSE)

\* main() step 4: synthesize_speech and the check of its result
SynthesizeSpeech ==
    /\ pc = "synth"
    /\ stages' = Append(stages, "synth")
    /\ \E outcome \in SynthOutcomes, audio \in AudioStreams :
         \E partial \in 0..Len(audio) :
            LET called == outcome # "client_error"
                answered == outcome \notin {"client_error", "call_error"}
                success == SynthReturns(outcome)
            IN  /\ ioLog' = ioLog \o SynthOps(outcome)
                /\ synthCalls' =
                      IF called
                      THEN Append(synthCalls,
                                  [Text |-> text, OutputFormat |-> "mp3",
                                   VoiceId |-> "Joanna", Engine |-> "neural",
                                   region_name |-> aws_region])
                      ELSE synthCalls
                /\ responses' =
                      IF answered
                      THEN Append(responses, PollyResponse(outcome, audio))
                      ELSE responses
                /\ outFile' = OutputAfterSynth(outFile, audio, outcome, partial)
                /\ printed' = Append(printed,
                                     CASE outcome = "ok" -> "SYNTH_OK"
                                       [] outcome = "no_stream" -> "ERR_NO_AUDIO_STREAM"
                                       [] OTHER -> "ERR_DURING_SYNTHESIS")
                /\ result' = [result EXCEPT !["synth"] =
                                 IF success THEN "ok" ELSE "fail"]
                /\ Gate(success, "upload")
    /\ UNCHANGED <<environ, speechFile, outFile0, bucket_name, aws_region,
                   environment, s3_key, text, uploadCalls>>

\* ---- upload_to_s3('output.mp3', bucket_name, s3_key, aws_region)
UploadOutcomes == {"client_error", "upload_error", "ok"}

UploadOps(outcome) ==
    IF outcome = "client_error" THEN <<"s3_client">> ELSE <<"s3_client", "s3_upload">>

\* the boolean upload_to_s3 returns
UploadReturnsTrue(outcome) == TRUE
UploadReturns(outcome) == outcome = "ok"

\* main() step 5: upload_to_s3 and the check of its result
UploadToS3 ==
    /\ pc = "upload"
    /\ stages' = Append(stages, "upload")
    /\ \E outcome \in UploadOutcomes :
         LET success == UploadReturns(outcome)
         IN  /\ ioLog' = ioLog \o UploadOps(outcome)
             /\ uploadCalls' =
                   IF outcome # "client_error"
                   THEN Append(uploadCalls,
                               [Filename |-> "output.mp3", Bucket |-> bucket_name,
                                Key |-> s3_key, ContentType |-> "audio/mpeg",
                                Metadata |-> [source |-> "polly-pipeline",
                                              voice |-> "Joanna", engine |-> "neural"],
                                region_name |-> aws_region,
                                Body |-> outFile])
                   ELSE uploadCalls
             /\ printed' = Append(printed,
                                  IF outcome = "ok" THEN "UPLOAD_OK"
                                  ELSE "ERR_DURING_UPLOAD")
             /\ result' = [result EXCEPT !["upload"] = IF success THEN "ok" ELSE "fail"]
             /\ Gate(success, "cleanup")
    /\ UNCHANGED <<environ, speechFile, outFile, outFile0, bucket_name, aws_region,
                   environment, s3_key, text, responses, synthCalls>>

\* whether an exception raised by os.remove leaves main() uncaught
RemoveErrorSwallowed(raised) == FALSE
RemoveErrorPropagates(raised) == raised

\* main() step 6: os.path.exists / os.remove, then sys.exit(0).
\* `present` is what os.path.exists answers: the file can have been removed by
\* someone else after the upload, which is the case the test is there for.
Cleanup ==
    /\ pc = "cleanup"
    /\ stages' = Append(stages, "cleanup")
    /\ \E present \in (IF outFile.exists THEN {TRUE, FALSE} ELSE {FALSE}),
          raised \in BOOLEAN :
         IF ~present
         THEN /\ ~raised
              /\ outFile' = NoFile
              /\ ioLog' = Append(ioLog, "exists_output")
              /\ printed' = Append(printed, "PIPELINE_COMPLETE")
              /\ result' = [result EXCEPT !["cleanup"] = "skipped"]
              /\ Exit(0, FALSE)
         ELSE /\ ioLog' = ioLog \o <<"exists_output", "remove_output">>
              /\ IF RemoveErrorPropagates(raised)
                 THEN /\ outFile' = outFile
                      /\ printed' = Append(printed, "TRACEBACK")
                      /\ result' = [result EXCEPT !["cleanup"] = "fail"]
                      /\ Exit(1, TRUE)
                 ELSE /\ outFile' = (IF raised THEN outFile ELSE NoFile)
                      /\ printed' = printed \o <<"CLEANED_UP", "PIPELINE_COMPLETE">>
                      /\ result' = [result EXCEPT !["cleanup"] = "ok"]
                      /\ Exit(0, FALSE)
    /\ UNCHANGED <<environ, speechFile, outFile0, bucket_name, aws_region,
                   environment, s3_key, text, responses, synthCalls, uploadCalls>>

Next ==
    \/ ValidateEnvironment
    \/ Configure
    \/ ReadTextFile
    \/ SynthesizeSpeech
    \/ UploadToS3
    \/ Cleanup

Spec == Init /\ [][Next]_vars

\* ================================================================ claims
Range(s) == {s[i] : i \in DOMAIN s}
AllWhitespace(s) == \A i \in DOMAIN s : s[i] \in Whitespace
ServiceOps == {"polly_client", "polly_synthesize", "s3_client", "s3_upload"}
FourOk == \A s \in FourStages : result[s] = "ok"
SynthFailed == Range(printed) \cap {"ERR_NO_AUDIO_STREAM", "ERR_DURING_SYNTHESIS"} # {}
UploadFailed == "ERR_DURING_UPLOAD" \in Range(printed)
ExpectedKey ==
    CASE environ.ENVIRONMENT = "beta" -> "polly-audio/beta.mp3"
      [] environ.ENVIRONMENT = "prod" -> "polly-audio/prod.mp3"
      [] OTHER -> "polly-audio/dev.mp3"

\* C1: when S3_BUCKET_NAME is unset or empty, the process never leaves the
\* validation step except by exiting with code 1, and at no point has any file
\* operation or any service operation been attempted.
C1_MissingBucketExitsBeforeAnyIO ==
    environ.S3_BUCKET_NAME \in {Unset, ""} =>
        /\ pc \in {"validate", "exited"}
        /\ pc = "exited" => (exitCode = 1 /\ ~unhandled)
        /\ ioLog = <<>>
        /\ synthCalls = <<>>
        /\ uploadCalls = <<>>
        /\ outFile = outFile0

C1_Witness ==
    /\ environ.S3_BUCKET_NAME = ""
    /\ pc = "exited"
    /\ exitCode = 1
    /\ stages = <<"validate">>

\* C2: when reading speech.txt fails (missing file, other I/O or decoding
\* error, empty or whitespace-only content), the run never gets past the read
\* step, exits with code 1, and never creates a service client nor invokes the
\* synthesis or the upload; in the empty case the exit raised inside the try
\* block is not taken by the generic handler (its message is never printed).
C2_ReadFailureExitsWithoutService ==
    (speechFile.status # "ok" \/ AllWhitespace(speechFile.data)) =>
        /\ pc \in {"validate", "configure", "read", "exited"}
        /\ pc = "exited" => (exitCode = 1 /\ ~unhandled)
        /\ synthCalls = <<>>
        /\ uploadCalls = <<>>
        /\ Range(ioLog) \cap ServiceOps = {}
        /\ result["read"] # "ok"
        /\ (speechFile.status = "ok" /\ result["read"] = "fail") =>
               /\ "ERR_FILE_EMPTY" \in Range(printed)
               /\ "ERR_READING_FILE" \notin Range(printed)

C2_Witness ==
    /\ speechFile = [status |-> "ok", data |-> <<" ", " ">>]
    /\ result["read"] = "fail"
    /\ pc = "exited"
    /\ exitCode = 1

\* C3: the object key is decided by ENVIRONMENT alone: beta and prod select
\* their own keys, every other value (unset, empty, other spellings) selects
\* the dev key, and every upload call is made with exactly that key.
C3_KeyIsFunctionOfEnvironment ==
    /\ s3_key # None => s3_key = ExpectedKey
    /\ \A i \in DOMAIN uploadCalls : uploadCalls[i].Key = ExpectedKey

C3_Witness ==
    /\ environ.ENVIRONMENT = "PROD"
    /\ uploadCalls # <<>>
    /\ uploadCalls[1].Key = "polly-audio/dev.mp3"

\* C4: whenever the synthesizer fails (no audio stream in the response, or an
\* exception at client creation, at the call, or while writing the file), it
\* returns false without raising, the upload and the cleanup are never started,
\* and the process exits with code 1.
C4_SynthFailureStopsPipeline ==
    SynthFailed =>
        /\ result["synth"] = "fail"
        /\ pc = "exited"
        /\ exitCode = 1
        /\ ~unhandled
        /\ uploadCalls = <<>>
        /\ Range(ioLog) \cap {"s3_client", "s3_upload", "exists_output", "remove_output"} = {}
        /\ Range(stages) \cap {"upload", "cleanup"} = {}

C4_Witness ==
    /\ "ERR_NO_AUDIO_STREAM" \in Range(printed)
    /\ Len(synthCalls) = 1
    /\ pc = "exited"
    /\ exitCode = 1

\* C5: whenever the upload fails after a successful synthesis, upload_to_s3
\* returns false without raising, the process exits with code 1, the cleanup
\* is never started, and output.mp3 still holds the synthesized audio.
C5_UploadFailureKeepsLocalFile ==
    UploadFailed =>
        /\ result["synth"] = "ok"
        /\ result["upload"] = "fail"
        /\ pc = "exited"
        /\ exitCode = 1
        /\ ~unhandled
        /\ outFile.exists
        /\ outFile = File(responses[1].AudioStream)
        /\ Range(ioLog) \cap {"exists_output", "remove_output"} = {}
        /\ "cleanup" \notin Range(stages)

C5_Witness ==
    /\ UploadFailed
    /\ Len(uploadCalls) = 1
    /\ outFile0 = NoFile
    /\ outFile.exists
    /\ pc = "exited"

\* C6: on every run in which validation, reading, synthesis and upload all
\* succeed, synthesis is invoked exactly once with the stripped text and the
\* fixed parameters, upload is invoked exactly once with the key computed from
\* ENVIRONMENT and content type audio/mpeg, output.mp3 is absent when the
\* process ends, and the exit code is 0.
C6_SuccessfulRunEndsCleanWithZero ==
    (pc = "exited" /\ FourOk) =>
        /\ Len(synthCalls) = 1
        /\ synthCalls[1].Text = RStrip(LStrip(speechFile.data))
        /\ synthCalls[1].VoiceId = "Joanna"
        /\ synthCalls[1].Engine = "neural"
        /\ synthCalls[1].OutputFormat = "mp3"
        /\ Len(uploadCalls) = 1
        /\ uploadCalls[1].Key = ExpectedKey
        /\ uploadCalls[1].ContentType = "audio/mpeg"
        /\ ~outFile.exists
        /\ exitCode = 0

\* C7: the terminal state is decided by the four stages alone: exit code 0
\* exactly when validation, reading, synthesis and upload all succeeded, exit
\* code 1 exactly when one of them failed, whatever the cleanup step does.
C7_ExitCodeDecidedByFourStages ==
    pc = "exited" =>
        /\ exitCode \in {0, 1}
        /\ exitCode = 0 <=> FourOk
        /\ exitCode = 1 <=> (\E s \in FourStages : result[s] = "fail")

\* C8: the stages started form a prefix of Validate, Read, Synthesize, Upload,
\* Cleanup (so none is skipped, reordered or re-entered), a stage is started
\* only after every earlier stage succeeded, and the synthesis call and the
\* upload call are each invoked at most once.
C8_StagesInOrderNoRetry ==
    /\ Len(stages) <= Len(StageNames)
    /\ \A i \in DOMAIN stages :
          /\ stages[i] = StageNames[i]
          /\ \A j \in 1..(i - 1) : result[StageNames[j]] = "ok"
    /\ Len(synthCalls) <= 1
    /\ Len(uploadCalls) <= 1

C8_Witness ==
    /\ stages = StageNames
    /\ pc = "exited"
    /\ Len(synthCalls) = 1
    /\ Len(uploadCalls) = 1

\* C9: when the removal of output.mp3 is attempted and fails, the error is not
\* caught: the process dies of an unhandled exception with a non-zero status,
\* without announcing completion, although all four stages succeeded and the
\* object was uploaded; when output.mp3 is absent at cleanup time the removal is
\* not attempted and the run exits 0.
C9_CleanupFailureIsUnhandled ==
    /\ ("remove_output" \in Range(ioLog) /\ outFile.exists) =>
          /\ unhandled
          /\ pc = "exited"
          /\ exitCode # 0
          /\ "PIPELINE_COMPLETE" \notin Range(printed)
    /\ unhandled =>
          /\ FourOk
          /\ Len(uploadCalls) = 1
          /\ "UPLOAD_OK" \in Range(printed)
          /\ ioLog[Len(ioLog)] = "remove_output"
    /\ (pc = "exited" /\ "exists_output" \in Range(ioLog)
          /\ "remove_output" \notin Range(ioLog)) =>
          /\ ~outFile.exists
          /\ exitCode = 0
          /\ ~unhandled

C9_Witness ==
    /\ unhandled
    /\ outFile.exists
    /\ Len(uploadCalls) = 1
    /\ exitCode = 1

\* C10: every upload call sends exactly the audio stream returned by this run's
\* synthesis call, also when a stale output.mp3 existed at start; when the
\* response has no audio stream, output.mp3 is left as it was and no upload is
\* made.
C10_UploadedBytesAreThisRunsAudio ==
    /\ \A i \in DOMAIN uploadCalls :
          /\ Len(responses) = 1
          /\ "AudioStream" \in DOMAIN responses[1]
          /\ uploadCalls[i].Body = File(responses[1].AudioStream)
    /\ (responses # <<>> /\ "AudioStream" \notin DOMAIN responses[1]) =>
          /\ outFile = outFile0
          /\ uploadCalls = <<>>

C10_Witness ==
    /\ outFile0 = File(StaleAudio)
    /\ uploadCalls # <<>>
    /\ uploadCalls[1].Body.data # StaleAudio
    /\ uploadCalls[1].Body.data # <<>>
====
